---- MODULE Spec2Model ----
(***************************************************************************)
(* Model of PipeLine (src/PipeLine.py): read_data, set_datetime_index,     *)
(* make_features and the static feature helpers.                           *)
(*                                                                         *)
(* A DataFrame is a record [none, index, columns, vals]: index is the      *)
(* sequence of row labels, columns the ordered sequence of column names,   *)
(* vals[k] the sequence of cells of column k.  A column name is a sequence *)
(* of string pieces (<<"sma_", "3", "_change">>), so that format, + and    *)
(* the substring test 'sma_' in col are computed, not assumed.  A numeric  *)
(* cell is an exact rational [n, d] with d > 0 in lowest terms, NaN is     *)
(* [n |-> 0, d |-> 0]; floating-point rounding is not modelled.  A string  *)
(* cell is [s |-> pieces].                                                 *)
(***************************************************************************)
EXTENDS Integers, Sequences, FiniteSets, TLC

VARIABLES data, price_df, final, y, indexed0, last, sma_out

vars == <<data, price_df, final, y, indexed0, last, sma_out>>

(***************************************************************************)
(* Bounds of the model.                                                    *)
(***************************************************************************)
MaxRows == 13
MaxStep == 1
MaxW == 4

(***************************************************************************)
(* Exact rationals and NaN.                                                *)
(***************************************************************************)
NaN == [n |-> 0, d |-> 0]

IsNum(c) == "d" \in DOMAIN c

IsNa(c) == IsNum(c) /\ c.d = 0

Abs(i) == IF i < 0 THEN -i ELSE i

RECURSIVE GCD(_, _)
GCD(a, b) == IF b = 0 THEN a ELSE GCD(b, a % b)

Norm(n, d) ==
    LET g == GCD(Abs(n), d)
    IN  [n |-> n \div g, d |-> d \div g]

Num(i) == [n |-> i, d |-> 1]

RAdd(a, b) ==
    IF IsNa(a) \/ IsNa(b) THEN NaN
    ELSE Norm(a.n * b.d + b.n * a.d, a.d * b.d)

RNeg(a) == IF IsNa(a) THEN NaN ELSE [n |-> -a.n, d |-> a.d]

RSub(a, b) == RAdd(a, RNeg(b))

RDivInt(a, k) == IF IsNa(a) THEN NaN ELSE Norm(a.n, a.d * k)

\* a > b of two floats: FALSE when either is NaN
RGt(a, b) == ~IsNa(a) /\ ~IsNa(b) /\ a.n * b.d > b.n * a.d

RLeq(a, b) == a.n * b.d <= b.n * a.d

Range(s) == {s[i] : i \in DOMAIN s}

IndexOf(s, x) == CHOOSE i \in DOMAIN s : s[i] = x

\* the sequence <<E(1), ..., E(n)>>, as a tuple of computed values
Build(n, E(_)) == [i \in 1..n |-> E(i)] \o <<>>

\* the elements of s at the positions i with Keep(i), in order
SelectIdx(s, Keep(_)) ==
    LET idx == SelectSeq(Build(Len(s), LAMBDA i : i), Keep)
    IN  Build(Len(idx), LAMBDA k : s[idx[k]])

(***************************************************************************)
(* Series and DataFrame operations of pandas and numpy used by the code.   *)
(***************************************************************************)
None == [none |-> TRUE]

IsNone(x) == x.none

Frame(idx, cols, vs) ==
    [none |-> FALSE, index |-> idx, columns |-> cols, vals |-> vs]

Series(idx, vs) == [none |-> FALSE, index |-> idx, vals |-> vs]

EmptyFrame == Frame(<<>>, <<>>, <<>>)

NRows(df) == Len(df.index)

HasCol(df, c) == c \in Range(df.columns)

\* df[c] / df.c
Col(df, c) == df.vals[IndexOf(df.columns, c)]

\* df[c] = v : overwrite in place when c exists, append otherwise; an empty
\* frame without columns takes the index of the assigned Series
SetItem(df, c, idx, v) ==
    IF HasCol(df, c)
    THEN [df EXCEPT !.vals[IndexOf(df.columns, c)] = v]
    ELSE [df EXCEPT !.index = IF df.columns = <<>> THEN idx ELSE @,
                    !.columns = Append(@, c),
                    !.vals = Append(@, v)]

\* df[[...]] : the listed columns, in the listed order
Project(df, cs) ==
    Frame(IF cs = <<>> /\ df.columns = <<>> THEN <<>> ELSE df.index, cs,
          Build(Len(cs), LAMBDA k : Col(df, cs[k])))

\* df.drop(cs, axis=1)
DropCols(df, cs) ==
    LET keep(k) == df.columns[k] \notin Range(cs)
    IN  [df EXCEPT !.columns = SelectIdx(df.columns, keep),
                   !.vals = SelectIdx(df.vals, keep)]

\* df.dropna() : drop every row holding NaN in any column
DropNa(df) ==
    LET keep(i) == \A k \in 1..Len(df.columns) : ~IsNa(df.vals[k][i])
    IN  [df EXCEPT !.index = SelectIdx(df.index, keep),
                   !.vals = Build(Len(df.columns),
                                  LAMBDA k : SelectIdx(df.vals[k], keep))]

\* pd.concat([a, b], axis=1) of two frames over the same index
ConcatCols(a, b) ==
    Frame(a.index, a.columns \o b.columns, a.vals \o b.vals)

\* s.shift(k) : row i takes the value of row i - k, NaN beyond the table
Shift(s, k) ==
    Build(Len(s), LAMBDA i : IF i - k \in 1..Len(s) THEN s[i - k] ELSE NaN)

SeqSub(a, b) == Build(Len(a), LAMBDA i : RSub(a[i], b[i]))

SeqNeg(a) == Build(Len(a), LAMBDA i : RNeg(a[i]))

\* np.where(cond, a, b)
Where(cond, a, b) == Build(Len(cond), LAMBDA i : IF cond[i] THEN a[i] ELSE b[i])

\* the median of a row's values, NaN skipped
Median(vs) ==
    LET xs == SortSeq(SelectSeq(vs, LAMBDA c : ~IsNa(c)), LAMBDA a, b : RLeq(a, b) /\ a # b)
        k  == Len(xs)
    IN  IF k = 0 THEN NaN
        ELSE IF k % 2 = 1 THEN xs[(k + 1) \div 2]
        ELSE RDivInt(RAdd(xs[k \div 2], xs[k \div 2 + 1]), 2)

RollingMean_partial(s, w) ==
    LET Acc[i \in 0..Len(s)] ==
            IF i = 0 THEN [nobs |-> 0, sum |-> Num(0)]
            ELSE LET a   == Acc[i - 1]
                     inn == ~IsNa(s[i])
                     out == i - w >= 1 /\ ~IsNa(s[i - w])
                 IN  [nobs |-> a.nobs + (IF inn THEN 1 ELSE 0) - (IF out THEN 1 ELSE 0),
                      sum  |-> RSub(RAdd(a.sum, IF inn THEN s[i] ELSE Num(0)),
                                    IF out THEN s[i - w] ELSE Num(0))]
        mean(i) == LET a == Acc[i]
                   IN  IF a.nobs >= 1 THEN RDivInt(a.sum, a.nobs) ELSE NaN
    IN  Build(Len(s), mean)

\* s.rolling(w).mean() with min_periods = w: one pass that adds the entering
\* value and removes the leaving one, counting the non-NaN observations
RollingMean(s, w) ==
    LET Acc[i \in 0..Len(s)] ==
            IF i = 0 THEN [nobs |-> 0, sum |-> Num(0)]
            ELSE LET a   == Acc[i - 1]
                     inn == ~IsNa(s[i])
                     out == i - w >= 1 /\ ~IsNa(s[i - w])
                 IN  [nobs |-> a.nobs + (IF inn THEN 1 ELSE 0) - (IF out THEN 1 ELSE 0),
                      sum  |-> RSub(RAdd(a.sum, IF inn THEN s[i] ELSE Num(0)),
                                    IF out THEN s[i - w] ELSE Num(0))]
        mean(i) == LET a == Acc[i]
                   IN  IF a.nobs >= w /\ a.nobs > 0
                       THEN RDivInt(a.sum, a.nobs) ELSE NaN
    IN  Build(Len(s), mean)

(***************************************************************************)
(* PipeLine: class attributes.                                             *)
(***************************************************************************)
N(s) == <<s>>

cols == <<N("date"), N("time"), N("open"), N("high"), N("low"), N("close"), N("volume")>>

smas == <<3, 5, 10>>

RawPriceCols_and_volume ==
    <<N("price"), N("high"), N("low"), N("open"), N("close"), N("volume")>>

\* the list dropped at lines 66 and 70
RawPriceCols == <<N("price"), N("high"), N("low"), N("open"), N("close")>>

\* 'sma_{}'.format(sma)
SmaName(w) == <<"sma_", ToString(w)>>

\* 'sma_' in col
IsSmaCol(c) == \E k \in 1..Len(c) : c[k] = "sma_"

(***************************************************************************)
(* PipeLine: static feature helpers.                                       *)
(***************************************************************************)
up_or_down(df) ==
    LET o == Col(df, N("open"))
        c == Col(df, N("close"))
    IN  Build(NRows(df), LAMBDA i : IF RGt(o[i], c[i]) THEN Num(1) ELSE Num(0))

IsDown(df) ==
    LET u == Col(df, N("U_D"))
    IN  Build(NRows(df), LAMBDA i : u[i] = Num(1))

up_shadow(df) ==
    SeqNeg(Where(IsDown(df),
                 SeqSub(Col(df, N("high")), Col(df, N("close"))),
                 SeqSub(Col(df, N("high")), Col(df, N("open")))))

lo_shadow(df) ==
    Where(IsDown(df),
          SeqSub(Col(df, N("open")), Col(df, N("low"))),
          SeqSub(Col(df, N("close")), Col(df, N("low"))))

body(df) ==
    Where(IsDown(df),
          SeqSub(Col(df, N("close")), Col(df, N("open"))),
          SeqSub(Col(df, N("close")), Col(df, N("open"))))

candle_range(df) == SeqSub(Col(df, N("high")), Col(df, N("low")))

median_price(df) ==
    LET o == Col(df, N("open"))
        c == Col(df, N("close"))
        h == Col(df, N("high"))
        l == Col(df, N("low"))
    IN  Build(NRows(df), LAMBDA i : Median(<<o[i], c[i], h[i], l[i]>>))

price_change(df) ==
    LET previous_candle == Shift(Col(df, N("price")), 1)
    IN  SeqSub(Col(df, N("price")), previous_candle)

\* make_sma(data, SMAs): SMAs is [is_list, items]; a non-list is reported on
\* standard output (warned) and processed all the same
make_sma(df, SMAs) ==
    LET Def[k \in 0..Len(SMAs.items)] ==
            IF k = 0 THEN EmptyFrame
            ELSE SetItem(Def[k - 1], SmaName(SMAs.items[k]), df.index,
                         RollingMean(Col(df, N("price")), SMAs.items[k]))
        def_df == Def[Len(SMAs.items)]
    IN  [frame  |-> Project(def_df, SelectSeq(def_df.columns, IsSmaCol)),
         names  |-> def_df.columns,
         warned |-> ~SMAs.is_list]

sma_change(df) ==
    LET sma_cols == SelectSeq(df.columns, IsSmaCol)
        cur      == Project(df, sma_cols)
    IN  Frame(cur.index,
              Build(Len(sma_cols), LAMBDA k : Append(sma_cols[k], "_change")),
              Build(Len(sma_cols), LAMBDA k : SeqSub(cur.vals[k], Shift(cur.vals[k], 1))))

(***************************************************************************)
(* Input files: a file is [start, step, n], n rows whose candles run       *)
(* through Candles from start in steps of step; row i is dated day i + 1.  *)
(***************************************************************************)
Candles ==
    << [open |-> 2, high |-> 3, low |-> 0, close |-> 1, volume |-> 5],
       [open |-> 1, high |-> 3, low |-> 0, close |-> 2, volume |-> 5],
       [open |-> 1, high |-> 2, low |-> 0, close |-> 1, volume |-> 7],
       [open |-> 4, high |-> 6, low |-> 1, close |-> 2, volume |-> 7] >>

DayStr ==
    << "01", "02", "03", "04", "05", "06", "07", "08", "09", "10",
       "11", "12", "13", "14", "15", "16" >>

\* the degenerate length, the length of the six-row scenario, and a length
\* at which rows survive the pruning of the widest default window
Lens == {2, 6, MaxRows}

Files ==
    [start : 0..(Len(Candles) - 1), step : 0..MaxStep, n : Lens]

CandleAt(f, i) == Candles[((f.start + f.step * (i - 1)) % Len(Candles)) + 1]

Str(pieces) == [s |-> pieces]

\* pd.read_csv(data, header='infer', index_col=None, names=cols): the rows of
\* the file under the given names, over the default index 0..n-1
read_csv(f, names) ==
    LET cell(c, i) ==
            IF c = N("date") THEN Str(<<"2020", ".", "01", ".", DayStr[i]>>)
            ELSE IF c = N("time") THEN Str(<<"09:00">>)
            ELSE IF c = N("open") THEN Num(CandleAt(f, i).open)
            ELSE IF c = N("high") THEN Num(CandleAt(f, i).high)
            ELSE IF c = N("low") THEN Num(CandleAt(f, i).low)
            ELSE IF c = N("close") THEN Num(CandleAt(f, i).close)
            ELSE Num(CandleAt(f, i).volume)
    IN  Frame(Build(f.n, LAMBDA i : i - 1), names,
              Build(Len(names), LAMBDA k : Build(f.n, LAMBDA i : cell(names[k], i))))

\* s.str.replace('.', '-')
StrReplaceDot(c) == Str(Build(Len(c.s), LAMBDA k : IF c.s[k] = "." THEN "-" ELSE c.s[k]))

\* the key of set_datetime_index: date with '.' replaced + ' ' + time
DatetimeKey(df) ==
    LET date == Col(df, N("date"))
        time == Col(df, N("time"))
    IN  Build(NRows(df), LAMBDA i : StrReplaceDot(date[i]).s \o <<" ">> \o time[i].s)

Indexed(df) == ~IsNone(df) /\ ~HasCol(df, N("date"))

(***************************************************************************)
(* make_features.  Until the first pd.concat rebinds data to a new frame,  *)
(* the frames live in a small heap keyed by object: "price_df" is          *)
(* self.price_df and "copy" the frame copy() returns; the in-place column  *)
(* assignments update the object the name data is bound to.  The frames    *)
(* pd.concat returns are new objects no other name refers to.              *)
(***************************************************************************)
Objects == {"price_df", "copy"}

df_copy_alias(ref) == ref

\* self.price_df.copy() returns a new object
df_copy(ref) == "copy"

\* line 56: make_sma(data) is called without SMAs, so with its default, the
\* class attribute smas; the smas argument of make_features is not used
sma_added(df) == make_sma(df, [is_list |-> TRUE, items |-> smas])

sma_drop_names_short(df) == make_sma(df, [is_list |-> TRUE, items |-> <<3, 5>>]).names

\* line 60: the names of the columns to drop, from a second make_sma(data)
sma_drop_names(df) == make_sma(df, [is_list |-> TRUE, items |-> smas]).names

next_label_previous(df) == Shift(Col(df, N("U_D")), 1)

\* line 63: data.U_D.shift(-1)
next_label(df) == Shift(Col(df, N("U_D")), -1)

Put(h, ref, c, v) == [h EXCEPT ![ref] = SetItem(@, c, @.index, v)]

\* lines 62-71: the two branches on pred_mode, on the frame data is bound to
finalize(pre, pred_mode) ==
    LET \* train mode
        t1  == SetItem(pre, N("y"), pre.index, next_label(pre))
        t2  == DropNa(t1)
        t4  == DropCols(DropCols(t2, <<N("y")>>), RawPriceCols)
        \* predict mode
        p2  == DropCols(DropNa(pre), RawPriceCols)
    IN  [final  |-> IF pred_mode THEN p2 ELSE t4,
         sets_y |-> ~pred_mode,
         y      |-> IF pred_mode THEN None ELSE Series(t4.index, Col(t2, N("y")))]

(***************************************************************************)
(* The argument values the model passes as smas: the default, one other    *)
(* list of positive integers, a non-positive width, a non-integer width    *)
(* and a tuple in place of a list.                                         *)
(***************************************************************************)
AsList(ws) == [is_list |-> TRUE, items |-> Build(Len(ws), LAMBDA k : Num(ws[k]))]

SmasArgs ==
    { AsList(smas), AsList(<<3>>), AsList(<<0>>),
      [is_list |-> TRUE, items |-> <<Norm(5, 2)>>],
      [is_list |-> FALSE, items |-> <<Num(3), Num(5)>>] }

NoCall ==
    [called |-> FALSE, smas |-> AsList(smas), pred_mode |-> FALSE, input |-> None,
     repeat |-> FALSE, pre |-> None,
     sma_added |-> <<>>, sma_removed |-> <<>>, raised |-> "none"]

(***************************************************************************)
(* The state machine.  data is the constructor's argument; indexed0 is the *)
(* table as set_datetime_index left it and last describes the latest       *)
(* make_features call (both only observe).                                 *)
(***************************************************************************)
Init ==
    /\ data \in Files
    /\ price_df = None
    /\ final = None
    /\ y = None
    /\ indexed0 = None
    /\ last = NoCall
    /\ sma_out = None

ReadData ==
    /\ price_df' = read_csv(data, cols)
    /\ UNCHANGED <<data, final, y, indexed0, last, sma_out>>

SetDatetimeIndex ==
    /\ ~IsNone(price_df)
    /\ HasCol(price_df, N("date"))
    /\ HasCol(price_df, N("time"))
    /\ \E df \in {DropCols([price_df EXCEPT !.index = DatetimeKey(price_df)],
                           <<N("date"), N("time")>>)} :
          /\ price_df' = df
          /\ indexed0' = df
    /\ UNCHANGED <<data, final, y, last, sma_out>>

SameInput(a, b) ==
    /\ IsNone(a) = IsNone(b)
    /\ ~IsNone(a) => /\ Indexed(a) = Indexed(b)
                     /\ a = b

\* make_features(smas_arg, pred_mode), statement by statement: h is the heap
\* after each statement and d the object the name data is bound to
MakeFeatures ==
    /\ ~IsNone(price_df)
    /\ \E d \in {df_copy("price_df")} :
       \E h1 \in {[o \in Objects |-> IF o \in {"price_df", d} THEN price_df
                                     ELSE EmptyFrame]} :
       \E h2 \in {Put(h1, d, N("U_D"), up_or_down(h1[d]))} :
       \E h3 \in {Put(h2, d, N("up_shadow"), up_shadow(h2[d]))} :
       \E h4 \in {Put(h3, d, N("lo_shadow"), lo_shadow(h3[d]))} :
       \E h5 \in {Put(h4, d, N("body"), body(h4[d]))} :
       \E h6 \in {Put(h5, d, N("range"), candle_range(h5[d]))} :
       \E h7 \in {Put(h6, d, N("price"), median_price(h6[d]))} :
       \E h8 \in {Put(h7, d, N("price_change"), price_change(h7[d]))} :
       \E s1 \in {sma_added(h8[d]).frame} :
       \E c1 \in {ConcatCols(h8[d], s1)} :
       \E c2 \in {ConcatCols(c1, sma_change(c1))} :
       \E drop \in {sma_drop_names(c2)} :
       \E pre \in {DropCols(c2, drop)} :
       \E pred_mode \in BOOLEAN :
       \E r \in {finalize(pre, pred_mode)} :
       \E smas_arg \in SmasArgs :
          /\ price_df' = h8["price_df"]
          /\ final' = r.final
          /\ y' = IF r.sets_y THEN r.y ELSE y
          /\ last' = [called |-> TRUE, smas |-> smas_arg,
                      pred_mode |-> pred_mode, input |-> price_df,
                      repeat |-> /\ last.called
                                 /\ last.smas = smas_arg
                                 /\ last.pred_mode = pred_mode
                                 /\ SameInput(last.input, price_df),
                      pre |-> pre,
                      sma_added |-> s1.columns,
                      sma_removed |-> drop,
                      raised |-> "none"]
    /\ UNCHANGED <<data, indexed0, sma_out>>

\* a direct call of the static helpers on the table with its price column:
\* make_sma(data, SMAs), then sma_change on data joined with its result
CallMakeSma(SMAs) ==
    /\ ~IsNone(price_df)
    /\ \E d \in {SetItem(price_df, N("price"), price_df.index, median_price(price_df))} :
       \E out \in {make_sma(d, SMAs)} :
       \E ch \in {sma_change(ConcatCols(d, out.frame))} :
          sma_out' = [none |-> FALSE, SMAs |-> SMAs, price |-> Col(d, N("price")),
                      out |-> out, change |-> ch]
    /\ UNCHANGED <<data, price_df, final, y, indexed0, last>>

SmaLists ==
    {[is_list |-> b, items |-> <<w>>] : w \in 1..MaxW, b \in BOOLEAN}
        \cup {[is_list |-> TRUE, items |-> smas]}

Next ==
    \/ ReadData
    \/ SetDatetimeIndex
    \/ MakeFeatures

Spec == Init /\ [][Next]_vars

NextSma ==
    \/ ReadData
    \/ SetDatetimeIndex
    \/ \E SMAs \in SmaLists : CallMakeSma(SMAs)

SpecSma == Init /\ [][NextSma]_vars

(***************************************************************************)
(* Vocabulary of the properties.                                           *)
(***************************************************************************)
EngineeredCols ==
    <<N("U_D"), N("up_shadow"), N("lo_shadow"), N("body"), N("range"), N("price_change")>>

SmaChangeName(w) == <<"sma_", ToString(w), "_change">>

ChangeCols(ws) == {SmaChangeName(ws[k]) : k \in 1..Len(ws)}

NoDuplicates(sq) == Cardinality(Range(sq)) = Len(sq)

\* a list of positive integers
ValidWidths(a) ==
    a.is_list /\ \A k \in 1..Len(a.items) : a.items[k].d = 1 /\ a.items[k].n > 0

WidthsOf(a) == [k \in 1..Len(a.items) |-> a.items[k].n]

MaxOf(ws) == CHOOSE m \in Range(ws) : \A k \in 1..Len(ws) : ws[k] <= m

\* the latest make_features call ran on a table set_datetime_index had indexed
OnIndexed == last.called /\ Indexed(last.input)

\* the position of a row label in the table make_features started from
RowOf(label) == IndexOf(last.input.index, label)

RMax(a, b) == IF RLeq(a, b) THEN b ELSE a

RMin(a, b) == IF RLeq(a, b) THEN a ELSE b

C2_WidthsHonoured ==
    (OnIndexed /\ ValidWidths(last.smas)) =>
        LET W     == WidthsOf(last.smas)
            n     == NRows(last.input)
            first == MaxOf(W) + 1
            lastr == IF last.pred_mode THEN n ELSE n - 1
        IN  /\ {c \in Range(final.columns) : IsSmaCol(c)} = ChangeCols(W)
            /\ final.index = SubSeq(last.input.index, first, lastr)

(***************************************************************************)
(* C3: after a train-mode make_features, y and the final table have the    *)
(* same index, and y at a retained row is U_D of the next row of the       *)
(* feature table as it was before rows were dropped.                       *)
(***************************************************************************)
C3_LabelAlignment ==
    (last.called /\ ~last.pred_mode) =>
        /\ ~IsNone(y)
        /\ y.index = final.index
        /\ Len(y.vals) = NRows(final)
        /\ \A k \in 1..NRows(final) :
              /\ RowOf(final.index[k]) + 1 <= NRows(last.pre)
              /\ y.vals[k] = Col(last.pre, N("U_D"))[RowOf(final.index[k]) + 1]

C3_Witness ==
    /\ OnIndexed
    /\ ~last.pred_mode
    /\ NRows(final) >= 2
    /\ y.vals[1] # y.vals[2]
    /\ \E k \in 1..NRows(final) :
          y.vals[k] # Col(last.pre, N("U_D"))[RowOf(final.index[k])]

(***************************************************************************)
(* C4: after any predict-mode make_features, self.y is none.               *)
(***************************************************************************)
C4_PredictHasNoLabel ==
    (last.called /\ last.pred_mode) => IsNone(y)

(***************************************************************************)
(* C5: a make_features call whose widths are not a list of positive        *)
(* integers raises InvalidWindowWidthError and leaves self.final and       *)
(* self.y as they were.                                                    *)
(***************************************************************************)
C5_InvalidWidthsRejected ==
    [][(last' # last /\ ~ValidWidths(last'.smas)) =>
          /\ last'.raised = "InvalidWindowWidthError"
          /\ final' = final
          /\ y' = y]_vars

(***************************************************************************)
(* C6: on a six-row table with open = close, high = open + 1,              *)
(* low = open - 1 and constant volume, widths [3], train mode: U_D is 0    *)
(* and range 2 on every row, the final table holds exactly rows 2..4 and   *)
(* y is U_D of rows 3..5, all 0.                                           *)
(***************************************************************************)
SixRowScenario(df) ==
    /\ NRows(df) = 6
    /\ \A i \in 1..6 :
          /\ Col(df, N("close"))[i] = Col(df, N("open"))[i]
          /\ Col(df, N("high"))[i] = RAdd(Col(df, N("open"))[i], Num(1))
          /\ Col(df, N("low"))[i] = RSub(Col(df, N("open"))[i], Num(1))
          /\ Col(df, N("volume"))[i] = Col(df, N("volume"))[1]

C6_SixRowScenario ==
    (OnIndexed /\ ~last.pred_mode /\ last.smas = AsList(<<3>>)
        /\ SixRowScenario(last.input)) =>
        /\ \A i \in 1..6 :
              /\ Col(last.pre, N("U_D"))[i] = Num(0)
              /\ Col(last.pre, N("range"))[i] = Num(2)
        /\ final.index = SubSeq(last.input.index, 3, 5)
        /\ y.index = final.index
        /\ y.vals = <<Num(0), Num(0), Num(0)>>

(***************************************************************************)
(* C7: a make_features call with the arguments and the table of the call   *)
(* before it leaves the final table and the label as that call left them;  *)
(* and in every call the sma_w columns removed are the ones added.         *)
(***************************************************************************)
SameCall(a, b) ==
    /\ a.called /\ b.called
    /\ a.smas = b.smas
    /\ a.pred_mode = b.pred_mode
    /\ SameInput(a.input, b.input)

C8_PriceTableUntouched ==
    Indexed(price_df) =>
        /\ price_df = indexed0
        /\ price_df.columns =
               <<N("open"), N("high"), N("low"), N("close"), N("volume")>>

C8_Witness ==
    /\ Indexed(price_df)
    /\ OnIndexed
    /\ last.repeat
    /\ NRows(final) >= 1
    /\ NRows(final) < NRows(price_df)

(***************************************************************************)
(* C9: for a width w <= |T| given to make_sma, sma_w is undefined at rows  *)
(* i < w-1 and is the mean of price over rows i-w+1..i from row w-1 on;    *)
(* sma_w_change is undefined at rows 0..w-1 and is sma_w[i] - sma_w[i-1]   *)
(* from row w on.  (Rows are counted from 0 in the claim, from 1 here.)    *)
(***************************************************************************)
RECURSIVE SumOver(_, _, _)
SumOver(s, lo, hi) ==
    IF lo > hi THEN Num(0) ELSE RAdd(s[hi], SumOver(s, lo, hi - 1))

WindowMean(s, lo, hi) == RDivInt(SumOver(s, lo, hi), hi - lo + 1)

C9_TrailingMean ==
    ~IsNone(sma_out) =>
        \A k \in 1..Len(sma_out.SMAs.items) :
            LET w   == sma_out.SMAs.items[k]
                n   == Len(sma_out.price)
                sma == Col(sma_out.out.frame, SmaName(w))
                chg == Col(sma_out.change, SmaChangeName(w))
            IN  w <= n =>
                  \A i \in 1..n :
                     /\ i < w => IsNa(sma[i])
                     /\ i >= w => sma[i] = WindowMean(sma_out.price, i - w + 1, i)
                     /\ i <= w => IsNa(chg[i])
                     /\ i > w => chg[i] = RSub(sma[i], sma[i - 1])

C9_Witness ==
    /\ ~IsNone(sma_out)
    /\ \E k \in 1..Len(sma_out.SMAs.items) :
          LET w   == sma_out.SMAs.items[k]
              n   == Len(sma_out.price)
              sma == Col(sma_out.out.frame, SmaName(w))
              chg == Col(sma_out.change, SmaChangeName(w))
          IN  /\ w >= 2
              /\ n >= w + 2
              /\ sma[w].d > 1
              /\ \E i \in (w + 1)..n : ~IsNa(chg[i]) /\ chg[i] # Num(0)

(***************************************************************************)
(* C10: on every row with high >= max(open, close) and                     *)
(* low <= min(open, close), up_shadow is high - max(open, close) and       *)
(* lo_shadow is min(open, close) - low, both non-negative.                 *)
(***************************************************************************)
C10_ShadowsFromBody ==
    last.called =>
        \A i \in 1..NRows(last.pre) :
            LET o == Col(last.pre, N("open"))[i]
                c == Col(last.pre, N("close"))[i]
                h == Col(last.pre, N("high"))[i]
                l == Col(last.pre, N("low"))[i]
                up == Col(last.pre, N("up_shadow"))[i]
                lo == Col(last.pre, N("lo_shadow"))[i]
            IN  (RLeq(RMax(o, c), h) /\ RLeq(l, RMin(o, c))) =>
                  /\ up = RSub(h, RMax(o, c))
                  /\ lo = RSub(RMin(o, c), l)
                  /\ RLeq(Num(0), up)
                  /\ RLeq(Num(0), lo)

====
